---- MODULE Spec2Model ----
(***************************************************************************)
(* A model of the lexer (src/tokenizer.rs) and of the precedence-climbing  *)
(* parser (src/parser.rs).                                                 *)
(*                                                                         *)
(* A character is a one-character string, a text is a sequence of          *)
(* characters.  `position' is the single usize field of Tokenizer: the     *)
(* scan uses it as an index into `input' and next()/peek_token() use the   *)
(* same field as an index into `tokens'.  Positions count from 0 as in the *)
(* source, so the element at position p is seq[p + 1].                     *)
(***************************************************************************)
EXTENDS Integers, Sequences, FiniteSets, TLC

VARIABLES
    input,          \* Tokenizer.input
    position,       \* Tokenizer.position
    tokens,         \* Tokenizer.tokens
    pc,             \* where control is: "tokenizing" (inside tokenize_input), "ready"
                    \* (the Tokenizer is idle), "parser" (the PrattParser is built),
                    \* "aborted" (the process was aborted)
    caller,         \* who entered tokenize_input: "new" or "tokenize_string"
    client,         \* what owns the Tokenizer: "lexer" (its public API) or "parser" (PrattParser)
    ret,            \* the last call of the public API and what it returned
    current_token,  \* PrattParser.current_token
    constructed,    \* the token sequence as it was when Tokenizer::new returned
    served,         \* what the calls of next() made on the lexer returned, in order
    retrieved,      \* what the calls of tokenize_string() returned, in order
    reported        \* the error tokenize_input printed last (eprintln!), if any

vars == <<input, position, tokens, pc, caller, client, ret, current_token,
          constructed, served, retrieved, reported>>

(***************************************************************************)
(* Bounds of the model.                                                    *)
(***************************************************************************)
\* the texts over Alphabet are enumerated up to this length
MaxLen == 3
\* the number of tokens the memory holds: a push onto a Vec of this many
\* tokens cannot allocate, and the process is aborted
MaxTokens == 10
\* the calls of next() made directly on the lexer are followed up to this many
MaxNext == 3

(***************************************************************************)
(* Characters.                                                             *)
(***************************************************************************)
Lower == <<"a","b","c","d","e","f","g","h","i","j","k","l","m",
           "n","o","p","q","r","s","t","u","v","w","x","y","z">>
Upper == <<"A","B","C","D","E","F","G","H","I","J","K","L","M",
           "N","O","P","Q","R","S","T","U","V","W","X","Y","Z">>
Digits == <<"0","1","2","3","4","5","6","7","8","9">>

Range(s) == { s[i] : i \in DOMAIN s }

Whitespace == {" ", "\t", "\n", "\r"}
\* char::is_ascii_digit, the pattern 'a'..='z' | 'A'..='Z' | '_', and
\* char::is_ascii_alphanumeric or '_'
AsciiDigit == Range(Digits)
IdentStart == Range(Lower) \cup Range(Upper) \cup {"_"}
IdentPart == Range(Lower) \cup Range(Upper) \cup Range(Digits) \cup {"_"}

\* char::to_uppercase on one ASCII character
ToUpperChar(ch) ==
    IF ch \in Range(Lower)
    THEN Upper[CHOOSE i \in DOMAIN Lower : Lower[i] = ch]
    ELSE ch

\* str::to_uppercase
ToUppercase(s) == [i \in DOMAIN s |-> ToUpperChar(s[i])]

DigitValue(ch) == (CHOOSE i \in DOMAIN Digits : Digits[i] = ch) - 1

(***************************************************************************)
(* Tokens, keywords, errors.                                               *)
(***************************************************************************)
Eof == [type |-> "Eof"]
Simple(type) == [type |-> type]
Number(n) == [type |-> "Number", value |-> n]
Identifier(s) == [type |-> "Identifier", value |-> s]
StringTok(s) == [type |-> "String", value |-> s]
KeywordTok(k) == [type |-> "Keyword", value |-> k]

\* Result<T, ParseError>; of an error the kind and the fixed text of its
\* message are kept (the formatted argument is left out)
Ok(v) == [ok |-> TRUE, value |-> v]
Err(kind, message) == [ok |-> FALSE, error |-> kind, message |-> message]

\* Option<Token>
Some(t) == [some |-> TRUE, value |-> t]
None == [some |-> FALSE]

\* the ten reserved words, spelt in upper case, and the Keyword each names
ReservedWords ==
    { <<"S","E","L","E","C","T">>, <<"C","R","E","A","T","E">>,
      <<"T","A","B","L","E">>, <<"W","H","E","R","E">>, <<"F","R","O","M">>,
      <<"O","R","D","E","R">>, <<"B","Y">>, <<"A","N","D">>, <<"O","R">>,
      <<"N","O","T">> }

\* the lookup without to_uppercase: only the upper-case spelling matches
KeywordFromStrCaseSensitive(s) ==
    IF s \in ReservedWords THEN Ok(s) ELSE Err("()", "")

\* Keyword::from_str
KeywordFromStr(s) ==
    IF ToUppercase(s) \in ReservedWords THEN Ok(ToUppercase(s)) ELSE Err("()", "")

(***************************************************************************)
(* u64 values are kept as their decimal digits without leading zeros, so   *)
(* that 2^64 - 1 and its neighbours are exact.                             *)
(***************************************************************************)
U64Max == <<"1","8","4","4","6","7","4","4","0","7","3","7","0","9","5","5","1","6","1","5">>

RECURSIVE StripZeros(_)
StripZeros(ds) ==
    IF Len(ds) > 1 /\ ds[1] = "0" THEN StripZeros(Tail(ds)) ELSE ds

\* ds <= es for digit sequences of the same length
RECURSIVE DigitsLeq(_, _)
DigitsLeq(ds, es) ==
    IF ds = <<>> THEN TRUE
    ELSE IF DigitValue(ds[1]) < DigitValue(es[1]) THEN TRUE
    ELSE IF DigitValue(ds[1]) > DigitValue(es[1]) THEN FALSE
    ELSE DigitsLeq(Tail(ds), Tail(es))

\* the parse without the overflow check
ParseU64Unchecked(ds) == Ok(StripZeros(ds))

\* str::parse::<u64> on a non-empty run of ASCII digits
ParseU64(ds) ==
    LET c == StripZeros(ds) IN
    IF Len(c) < Len(U64Max) \/ (Len(c) = Len(U64Max) /\ DigitsLeq(c, U64Max))
    THEN Ok(c)
    ELSE Err("ParseIntError", "number too large to fit in target type")

(***************************************************************************)
(* The character scan.  Each scanner takes the text and the position and   *)
(* yields the result together with the position it leaves.                 *)
(***************************************************************************)
Scanned(res, pos) == [result |-> res, position |-> pos]

\* Tokenizer::peek
Peek(inp, pos) == IF pos < Len(inp) THEN Some(inp[pos + 1]) ELSE None

\* the position after the maximal run of characters of `class' starting at pos
RECURSIVE RunEnd(_, _, _)
RunEnd(inp, pos, class) ==
    IF pos < Len(inp) /\ inp[pos + 1] \in class
    THEN RunEnd(inp, pos + 1, class)
    ELSE pos

\* the characters at positions from..to-1
Slice(inp, from, to) == SubSeq(inp, from + 1, to)

\* Tokenizer::tokenize_string_literal
TokenizeStringLiteral(inp, pos) ==
    LET start == pos + 1
        close == RunEnd(inp, start, Range(inp) \ {"\""})
    IN  IF close < Len(inp)
        THEN Scanned(Ok(StringTok(Slice(inp, start, close))), close + 1)
        ELSE Scanned(Err("UnexpectedEndOfInput", "Unterminated string literal"), close)

\* Tokenizer::tokenize_number
TokenizeNumber(inp, pos) ==
    LET end == RunEnd(inp, pos, AsciiDigit)
        parsed == ParseU64(Slice(inp, pos, end))
    IN  IF parsed.ok
        THEN Scanned(Ok(Number(parsed.value)), end)
        ELSE Scanned(Err("ExpectedNumber", "Invalid number"), end)

\* Tokenizer::tokenize_identifier_or_keyword
TokenizeIdentifierOrKeyword(inp, pos) ==
    LET end == RunEnd(inp, pos, IdentPart)
        value == Slice(inp, pos, end)
        keyword == KeywordFromStr(value)
    IN  IF keyword.ok
        THEN Scanned(Ok(KeywordTok(keyword.value)), end)
        ELSE Scanned(Ok(Identifier(value)), end)

\* the arm without the lookahead: the operator alone, one character consumed
WithEqualNoLookahead(inp, pos, single, double) == Scanned(single, pos + 1)

\* the arm of the match for an operator that may be followed by '='
WithEqual(inp, pos, single, double) ==
    IF Peek(inp, pos + 1) = Some("=")
    THEN Scanned(double, pos + 2)
    ELSE Scanned(single, pos + 1)

\* Tokenizer::tokenize_next_token: always Some(..), so the Option is left out
TokenizeNextToken(inp, pos) ==
    LET p == RunEnd(inp, pos, Whitespace) IN
    IF p >= Len(inp) THEN Scanned(Ok(Eof), p)
    ELSE LET ch == inp[p + 1] IN
        CASE ch = "\"" -> TokenizeStringLiteral(inp, p)
          [] ch \in AsciiDigit -> TokenizeNumber(inp, p)
          [] ch \in IdentStart -> TokenizeIdentifierOrKeyword(inp, p)
          [] ch = "(" -> Scanned(Ok(Simple("LeftParentheses")), p + 1)
          [] ch = ")" -> Scanned(Ok(Simple("RightParentheses")), p + 1)
          [] ch = "," -> Scanned(Ok(Simple("Comma")), p + 1)
          [] ch = ";" -> Scanned(Ok(Simple("Semicolon")), p + 1)
          [] ch = "=" -> WithEqual(inp, p, Ok(Simple("Equal")), Ok(Simple("Equal")))
          [] ch = "!" -> WithEqual(inp, p, Err("UnexpectedToken", "Unexpected '!' without '='"), Ok(Simple("NotEqual")))
          [] ch = ">" -> WithEqual(inp, p, Ok(Simple("GreaterThan")), Ok(Simple("GreaterThanOrEqual")))
          [] ch = "<" -> WithEqual(inp, p, Ok(Simple("LessThan")), Ok(Simple("LessThanOrEqual")))
          [] ch = "+" -> Scanned(Ok(Simple("Plus")), p + 1)
          [] ch = "-" -> Scanned(Ok(Simple("Minus")), p + 1)
          [] ch = "*" -> Scanned(Ok(Simple("Multiply")), p + 1)
          [] ch = "/" -> Scanned(Ok(Simple("Divide")), p + 1)
          [] OTHER -> Scanned(Err("UnexpectedToken", "Unexpected character"), p + 1)

(***************************************************************************)
(* The token cursor.                                                       *)
(***************************************************************************)
Returned(value, pos) == [value |-> value, position |-> pos]

\* Tokenizer::peek_token
PeekToken(toks, pos) == IF pos < Len(toks) THEN Some(toks[pos + 1]) ELSE None

\* next() as an Iterator would end: None once the sequence is exhausted
TokenizerNextNoneAtEnd(toks, pos) ==
    IF pos < Len(toks)
    THEN Returned(Some(toks[pos + 1]), pos + 1)
    ELSE Returned(None, pos)

\* next() starting over from the first token once the sequence is exhausted
TokenizerNextStartingOver(toks, pos) ==
    IF pos < Len(toks)
    THEN Returned(Some(toks[pos + 1]), pos + 1)
    ELSE Returned(Some(Eof), 0)

\* Tokenizer::next
TokenizerNext(toks, pos) ==
    IF pos < Len(toks)
    THEN Returned(Some(toks[pos + 1]), pos + 1)
    ELSE Returned(Some(Eof), pos)

\* the check after the loop of tokenize_input
AddEofIfMissing(toks) ==
    IF toks = <<>> \/ toks[Len(toks)] # Eof THEN Append(toks, Eof) ELSE toks

(***************************************************************************)
(* The parser.  parse_expression and parse_primary are functions of the    *)
(* token sequence and of the parser's state (the token cursor and          *)
(* current_token); each yields its Result and the state it leaves.         *)
(***************************************************************************)
ParserState(pos, cur) == [position |-> pos, current_token |-> cur]
Parsed(res, st) == [result |-> res, state |-> st]

NumberExpr(n) == [kind |-> "Number", value |-> n]
IdentifierExpr(s) == [kind |-> "Identifier", value |-> s]
BinaryOperation(left, op, right) ==
    [kind |-> "BinaryOperation", left_operand |-> left, operator |-> op,
     right_operand |-> right]

\* PrattParser::get_precedence
GetPrecedence(token) ==
    CASE token.type \in {"Plus", "Minus"} -> 1
      [] token.type \in {"Multiply", "Divide"} -> 2
      [] OTHER -> 0

\* PrattParser::advance
Advance(toks, st) ==
    LET n == TokenizerNext(toks, st.position) IN ParserState(n.position, n.value)

RECURSIVE ParseExpression(_, _, _)
RECURSIVE ParseOperators(_, _, _, _)

\* parse_primary reporting a token that starts no primary with the lexer's
\* error kind
ParsePrimaryUnexpectedToken(toks, st) ==
    LET cur == st.current_token IN
    IF ~cur.some
    THEN Parsed(Err("UnexpectedEndOfInput", "Unexpected end of input"), st)
    ELSE CASE cur.value.type = "Number" ->
                Parsed(Ok(NumberExpr(cur.value.value)), Advance(toks, st))
           [] cur.value.type = "Identifier" ->
                Parsed(Ok(IdentifierExpr(cur.value.value)), Advance(toks, st))
           [] cur.value.type = "LeftParentheses" ->
                LET inner == ParseExpression(toks, Advance(toks, st), 0) IN
                IF ~inner.result.ok THEN inner
                ELSE IF inner.state.current_token = Some(Simple("RightParentheses"))
                THEN Parsed(inner.result, Advance(toks, inner.state))
                ELSE Parsed(Err("InvalidInput", "Expected closing parenthesis"), inner.state)
           [] OTHER -> Parsed(Err("UnexpectedToken", "Unexpected token"), st)

\* PrattParser::parse_primary
ParsePrimary(toks, st) ==
    LET cur == st.current_token IN
    IF ~cur.some
    THEN Parsed(Err("InvalidInput", "Unexpected end of input"), st)
    ELSE CASE cur.value.type = "Number" ->
                Parsed(Ok(NumberExpr(cur.value.value)), Advance(toks, st))
           [] cur.value.type = "Identifier" ->
                Parsed(Ok(IdentifierExpr(cur.value.value)), Advance(toks, st))
           [] cur.value.type = "LeftParentheses" ->
                LET inner == ParseExpression(toks, Advance(toks, st), 0) IN
                IF ~inner.result.ok THEN inner
                ELSE IF inner.state.current_token = Some(Simple("RightParentheses"))
                THEN Parsed(inner.result, Advance(toks, inner.state))
                ELSE Parsed(Err("InvalidInput", "Expected closing parenthesis"), inner.state)
           [] OTHER -> Parsed(Err("InvalidInput", "Unexpected token"), st)

\* the while loop of PrattParser::parse_expression, entered with `left'
ParseOperators(toks, st, precedence, left) ==
    IF ~st.current_token.some THEN Parsed(Ok(left), st)
    ELSE LET token_precedence == GetPrecedence(st.current_token.value) IN
        IF token_precedence <= precedence THEN Parsed(Ok(left), st)
        ELSE LET op == st.current_token.value
                 right == ParseExpression(toks, Advance(toks, st), token_precedence)
             IN  IF ~right.result.ok THEN right
                 ELSE IF op.type \in {"Plus", "Minus", "Multiply", "Divide"}
                 THEN ParseOperators(toks, right.state, precedence,
                                     BinaryOperation(left, op.type, right.result.value))
                 ELSE Parsed(Err("InvalidInput", "Unexpected operator"), right.state)

\* PrattParser::parse_expression
ParseExpression(toks, st, precedence) ==
    LET first == ParsePrimary(toks, st) IN
    IF ~first.result.ok THEN first
    ELSE ParseOperators(toks, first.state, precedence, first.result.value)

\* PrattParser::parse
Parse(toks, st) == ParseExpression(toks, st, 0)

(***************************************************************************)
(* The texts the model is run on: every text over Alphabet up to MaxLen    *)
(* characters, the texts of the form  a op b op c,  and the examples of    *)
(* expressions and of numbers at the limit of u64.                         *)
(***************************************************************************)
Alphabet == {"1", "x", "+", "=", "!", "\"", " "}

ShortTexts == UNION { [1..n -> Alphabet] : n \in 0..MaxLen }

Operands == {"1", "x"}
Operators == {"+", "-", "*", "/"}

ThreeOperandTexts ==
    { <<a, op1, b, op2, c>> : a \in Operands, op1 \in Operators, b \in Operands,
                              op2 \in Operators, c \in Operands }

U64MaxPlusOne == <<"1","8","4","4","6","7","4","4","0","7","3","7","0","9","5","5","1","6","1","6">>

Examples ==
    { <<"1","+","2","*","3">>, <<"x","*","2","+","y">>, <<"1","-","2","-","3">>,
      <<"(","1","+","2",")","*","3">>, <<"(","1","+","2">>,
      <<"(","1","+","2",")","*","3","!">>, <<"(","1","+","2","#">>,
      <<"1","+","2","*","3","!","!">>,
      U64Max, U64MaxPlusOne, U64Max \o <<"!">>, <<"1">> \o U64MaxPlusOne \o <<" ","1","!">> }

\* the texts of up to three of the characters of the comparison operators
OperatorTexts == UNION { [1..n -> {">", "<", "=", "!"}] : n \in 1..3 }

\* words: reserved words in several casings, and words that only begin
\* with, end with or contain one
WordTexts ==
    { <<"O","R">>, <<"o","r">>, <<"O","r">>, <<"o","R">>, <<"b","y">>, <<"B","y">>,
      <<"n","o","t">>, <<"N","o","T">>, <<"A","n","d">>, <<"f","r","O","m">>,
      <<"s","e","l","e","c","t">>, <<"S","e","L","e","C","t">>,
      <<"c","r","e","a","t","e">>, <<"T","a","b","l","e">>, <<"w","H","E","R","e">>,
      <<"o","r","d","e","r">>,
      <<"s","e","l","e","c","t","x">>, <<"a","b","c","1","2","3","_","x">>,
      <<"o","r","1">>, <<"_","o","r">>, <<"o","r","_">>, <<"x","o","r">>,
      <<"o","r",";">>, <<"o","r"," ","b","y","!">>, <<"b","y","+","o","r","x">>,
      <<"1","o","r">>, <<"_">>, <<"x","1","!","o","r">> }

\* digit runs around the limit of u64
NumberTexts ==
    { <<"0">>, <<"0","0","7">>, <<"4","2"," ","7">>, <<"1","2","x">>,
      <<"0","0">> \o U64Max, <<"0">> \o U64MaxPlusOne, U64Max \o <<"0">>,
      <<"1","8","4","4","6","7","4","4","0","7","3","7","0","9","5","5","1","6","1","4">>,
      <<"1","8","4","4","6","7","4","4","0","7","3","7","0","9","5","5","1","6","2","0">>,
      <<"2","0","0","0","0","0","0","0","0","0","0","0","0","0","0","0","0","0","0","0">>,
      <<"9","9","9","9","9","9","9","9","9","9","9","9","9","9","9","9","9","9","9">>,
      <<"9","9","9","9","9","9","9","9","9","9","9","9","9","9","9","9","9","9","9","9">>,
      U64Max \o <<"+">> \o U64MaxPlusOne }

\* token sequences with something after a complete expression
TrailingTexts ==
    { <<"1",";","!">>, <<"x"," ","1","!">>, <<"1",")","!">>, <<"1","+","2",";","3","!">>,
      <<"1",";","2">>, <<"(","x",")","=","1","#">> }

Inputs ==
    ShortTexts \cup ThreeOperandTexts \cup Examples \cup OperatorTexts
        \cup WordTexts \cup NumberTexts \cup TrailingTexts

NoCall == [op |-> "none"]
Call(op, value) == [op |-> op, value |-> value]

(***************************************************************************)
(* Tokenizer::new builds the struct with position 0 and no tokens and      *)
(* enters tokenize_input.  The owner of the lexer is either a caller of    *)
(* its public methods or a PrattParser.                                    *)
(***************************************************************************)
Init ==
    /\ input \in Inputs
    /\ position = 0
    /\ tokens = <<>>
    /\ pc = "tokenizing"
    /\ caller = "new"
    /\ client \in {"lexer", "parser"}
    /\ ret = NoCall
    /\ current_token = None
    /\ constructed = <<>>
    /\ served = <<>>
    /\ retrieved = <<>>
    /\ reported = None

\* what tokenize_input does with the result of one scan: [tokens, done]
LoopStep(toks, res) ==
    IF res.ok
    THEN [tokens |-> Append(toks, res.value), done |-> FALSE]
    ELSE [tokens |-> AddEofIfMissing(Append(toks, Eof)), done |-> TRUE]

\* one iteration of the loop of tokenize_input whose scan yields a token
TokenizeOk ==
    /\ pc = "tokenizing"
    /\ Len(tokens) < MaxTokens
    /\ LET scan == TokenizeNextToken(input, position)
           step == LoopStep(tokens, scan.result)
       IN  /\ ~step.done
           /\ tokens' = step.tokens
           /\ position' = scan.position
    /\ UNCHANGED <<input, pc, caller, client, ret, current_token, constructed,
                   served, retrieved, reported>>

\* Vec::push when the memory is exhausted: the allocation fails and the
\* process is aborted
TokenizeAbort ==
    /\ pc = "tokenizing"
    /\ Len(tokens) >= MaxTokens
    /\ pc' = "aborted"
    /\ UNCHANGED <<input, position, tokens, caller, client, ret, current_token,
                   constructed, served, retrieved, reported>>

\* the iteration whose scan yields an error: push Eof, break, the check
\* after the loop, and the return to new() or to tokenize_string()
TokenizeErr ==
    /\ pc = "tokenizing"
    /\ Len(tokens) < MaxTokens
    /\ LET scan == TokenizeNextToken(input, position)
           step == LoopStep(tokens, scan.result)
       IN  /\ step.done
           /\ tokens' = step.tokens
           /\ position' = scan.position
           /\ pc' = "ready"
           /\ reported' = Some(scan.result)
           /\ IF caller = "new"
              THEN /\ constructed' = step.tokens
                   /\ UNCHANGED <<ret, retrieved>>
              ELSE /\ ret' = Call("tokenize_string", Ok(step.tokens))
                   /\ retrieved' = Append(retrieved, step.tokens)
                   /\ UNCHANGED constructed
    /\ UNCHANGED <<input, caller, client, current_token, served>>

\* Tokenizer::tokenize_string: enters tokenize_input again
TokenizeString ==
    /\ pc = "ready"
    /\ client = "lexer"
    /\ pc' = "tokenizing"
    /\ caller' = "tokenize_string"
    /\ UNCHANGED <<input, position, tokens, client, ret, current_token,
                   constructed, served, retrieved, reported>>

\* Tokenizer::next called on the lexer
Next_ ==
    /\ pc = "ready"
    /\ client = "lexer"
    /\ Len(served) < MaxNext
    /\ LET n == TokenizerNext(tokens, position)
       IN  /\ ret' = Call("next", n.value)
           /\ position' = n.position
           /\ served' = Append(served, n.value)
    /\ UNCHANGED <<input, tokens, pc, caller, client, current_token, constructed,
                   retrieved, reported>>

\* Tokenizer::peek_token called on the lexer
PeekTokenCall ==
    /\ pc = "ready"
    /\ client = "lexer"
    /\ ret' = Call("peek_token", PeekToken(tokens, position))
    /\ UNCHANGED <<input, position, tokens, pc, caller, client, current_token,
                   constructed, served, retrieved, reported>>

\* PrattParser::new, after Tokenizer::new has returned
PrattParserNew ==
    /\ pc = "ready"
    /\ client = "parser"
    /\ LET first_token == TokenizerNext(tokens, position)
       IN  /\ current_token' = first_token.value
           /\ position' = first_token.position
    /\ pc' = "parser"
    /\ UNCHANGED <<input, tokens, caller, client, ret, constructed, served, retrieved,
                   reported>>

\* PrattParser::parse
ParseCall ==
    /\ pc = "parser"
    /\ LET p == Parse(tokens, ParserState(position, current_token))
       IN  /\ ret' = Call("parse", p.result)
           /\ position' = p.state.position
           /\ current_token' = p.state.current_token
    /\ UNCHANGED <<input, tokens, pc, caller, client, constructed, served, retrieved,
                   reported>>

Next ==
    \/ TokenizeOk
    \/ TokenizeErr
    \/ TokenizeAbort
    \/ TokenizeString
    \/ Next_
    \/ PeekTokenCall
    \/ PrattParserNew
    \/ ParseCall

Spec == Init /\ [][Next]_vars

\* The program is single-threaded and runs on: the loop of tokenize_input
\* takes its next iteration, and the parser's owner constructs it and calls
\* parse().  The calls made on the lexer are the caller's choice.
FairSpec ==
    /\ Spec
    /\ WF_vars(TokenizeOk)
    /\ WF_vars(TokenizeErr)
    /\ WF_vars(TokenizeAbort)
    /\ WF_vars(PrattParserNew)
    /\ WF_vars(ParseCall)

(***************************************************************************)
(* Properties.                                                             *)
(***************************************************************************)
Last(seq) == seq[Len(seq)]

\* tokenize_input has returned (to new() or to tokenize_string())
Tokenized == pc \in {"ready", "parser"}

\* no call of tokenize_string() has been made since Tokenizer::new returned
OnlyConstructed == caller = "new" /\ Tokenized

\* the tokens of the text up to the first lexical error or the end of the
\* text, whichever comes first, and whether it was an error
RECURSIVE ScanPrefix(_, _, _)
ScanPrefix(inp, pos, acc) ==
    LET scan == TokenizeNextToken(inp, pos) IN
    IF ~scan.result.ok THEN [tokens |-> acc, error |-> TRUE, position |-> scan.position]
    ELSE IF scan.result.value = Eof
    THEN [tokens |-> acc, error |-> FALSE, position |-> scan.position]
    ELSE ScanPrefix(inp, scan.position, Append(acc, scan.result.value))

HasLexicalError(inp) == ScanPrefix(inp, 0, <<>>).error

\* C1: Tokenizer::new terminates on every text: the scan step that yields
\* Eof on exhausted input ends the loop of tokenize_input, and the
\* construction eventually returns.
C1_ConstructionTerminates ==
    /\ [][(pc = "tokenizing" /\ tokens' # tokens /\ Last(tokens') = Eof)
            => pc' = "ready"]_vars
    /\ <>(pc = "ready")

\* C2: once tokenization has returned, the token sequence ends with Eof
\* and holds no other Eof.
C2_ExactlyOneEof ==
    Tokenized =>
        /\ tokens # <<>>
        /\ Last(tokens) = Eof
        /\ \A i \in 1..(Len(tokens) - 1) : tokens[i] # Eof

\* C3: after construction the k-th call of next() returns the k-th token
\* of the sequence, and PrattParser::new takes the first token of the
\* sequence as its current token.
C3_CursorAtStart ==
    /\ OnlyConstructed =>
            \A k \in 1..Len(served) :
                k <= Len(constructed) => served[k] = Some(constructed[k])
    /\ pc = "parser" /\ ret = NoCall => current_token = Some(constructed[1])

\* C4: every call of tokenize_string() returns the sequence recorded at
\* construction (so two calls return the same), and after it the lexer
\* holds that same sequence.
C4_RetrievalIsPure ==
    /\ \A i \in DOMAIN retrieved : retrieved[i] = constructed
    /\ pc = "ready" => tokens = constructed

\* C5: after the first lexical error the token sequence is the tokens
\* scanned before the error followed by one Eof, and it stays so whatever
\* is called on the lexer later.
C5_TruncatedAtFirstError ==
    (Tokenized /\ HasLexicalError(input)) =>
        tokens = Append(ScanPrefix(input, 0, <<>>).tokens, Eof)

\* PrattParser::new(input) followed by parse() has returned
ParseReturned == ret.op = "parse"

\* C6: parse() terminates on every text: the parser built on the text
\* returns from parse().
C6_ParseTerminates == (client = "parser") ~> ParseReturned

\* C7: once the cursor is past the last token, a call of next() (by the
\* lexer's caller, or by PrattParser::new) returns Some(Eof), leaves the
\* token sequence as it is and leaves the cursor past the last token, so
\* that the same holds of every further call.
C7_ExhaustedNextYieldsEof ==
    [][/\ (served' # served /\ position >= Len(tokens))
            => /\ ret' = Call("next", Some(Eof))
               /\ Last(served') = Some(Eof)
               /\ tokens' = tokens
               /\ position' >= Len(tokens')
       /\ (pc = "ready" /\ pc' = "parser" /\ position >= Len(tokens))
            => /\ current_token' = Some(Eof)
               /\ tokens' = tokens
               /\ position' >= Len(tokens')]_vars

\* next() was called at least twice with the cursor past the last of
\* several tokens
C7_Witness ==
    /\ Len(served) >= 2
    /\ Len(tokens) >= 2
    /\ position >= Len(tokens)
    /\ ret = Call("next", Some(Eof))

(***************************************************************************)
(* The trees the texts  a op1 b op2 c  are expected to yield.              *)
(***************************************************************************)
AdditiveOps == {"+", "-"}
MultiplicativeOps == {"*", "/"}

LeafExpr(ch) ==
    IF ch \in AsciiDigit THEN NumberExpr(<<ch>>) ELSE IdentifierExpr(<<ch>>)

OperatorOf(ch) ==
    CASE ch = "+" -> "Plus" [] ch = "-" -> "Minus"
      [] ch = "*" -> "Multiply" [] ch = "/" -> "Divide"

IsThreeOperandText(t) ==
    /\ Len(t) = 5
    /\ \A i \in {1, 3, 5} : t[i] \in AsciiDigit \cup Range(Lower)
    /\ \A i \in {2, 4} : t[i] \in AdditiveOps \cup MultiplicativeOps

\* (a op1 b) op2 c
LeftGrouped(t) ==
    BinaryOperation(BinaryOperation(LeafExpr(t[1]), OperatorOf(t[2]), LeafExpr(t[3])),
                    OperatorOf(t[4]), LeafExpr(t[5]))

\* a op1 (b op2 c)
RightGrouped(t) ==
    BinaryOperation(LeafExpr(t[1]), OperatorOf(t[2]),
                    BinaryOperation(LeafExpr(t[3]), OperatorOf(t[4]), LeafExpr(t[5])))

ParserOn(t) == client = "parser" /\ input = t

\* parse() has returned the tree  a op1 (b op2 c)  /  (a op1 b) op2 c  of the text
ParsedRightGrouped ==
    IsThreeOperandText(input) /\ ret = Call("parse", Ok(RightGrouped(input)))
ParsedLeftGrouped ==
    IsThreeOperandText(input) /\ ret = Call("parse", Ok(LeftGrouped(input)))

\* C8: parsing  a op1 b op2 c  with op1 additive and op2 multiplicative
\* yields  a op1 (b op2 c),  and with op1 multiplicative and op2 additive
\* yields  (a op1 b) op2 c.
C8_Precedence ==
    /\ (/\ client = "parser"
        /\ IsThreeOperandText(input)
        /\ input[2] \in AdditiveOps /\ input[4] \in MultiplicativeOps)
          ~> ParsedRightGrouped
    /\ (/\ client = "parser"
        /\ IsThreeOperandText(input)
        /\ input[2] \in MultiplicativeOps /\ input[4] \in AdditiveOps)
          ~> ParsedLeftGrouped

\* C9: parsing  a op1 b op2 c  with op1 and op2 of equal precedence yields
\* (a op1 b) op2 c.
C9_LeftAssociative ==
    (/\ client = "parser"
     /\ IsThreeOperandText(input)
     /\ (input[2] \in AdditiveOps) = (input[4] \in AdditiveOps))
       ~> ParsedLeftGrouped

\* C10: parsing "(1+2)*3" yields (1+2) * 3, and parsing "(1+2" returns an
\* InvalidInput error.
C10_Grouping ==
    /\ ParserOn(<<"(","1","+","2",")","*","3">>)
          ~> (ret = Call("parse",
                    Ok(BinaryOperation(
                        BinaryOperation(NumberExpr(<<"1">>), "Plus", NumberExpr(<<"2">>)),
                        "Multiply", NumberExpr(<<"3">>)))))
    /\ ParserOn(<<"(","1","+","2">>)
          ~> (ParseReturned /\ ~ret.value.ok /\ ret.value.error = "InvalidInput")

(***************************************************************************)
(* One iteration of the loop of tokenize_input, seen from outside: where   *)
(* the scan starts (behind the whitespace), what it pushes, how many       *)
(* characters it consumes and which error it reports.                      *)
(***************************************************************************)
LoopIteration == pc = "tokenizing" /\ tokens' # tokens

ScanStart ==
    CHOOSE p \in position..Len(input) :
        /\ \A q \in position..(p - 1) : input[q + 1] \in {" ", "\t", "\n", "\r"}
        /\ p = Len(input) \/ input[p + 1] \notin {" ", "\t", "\n", "\r"}

\* the character at position p, "" behind the end of the text
CharAt(p) == IF p < Len(input) THEN input[p + 1] ELSE ""

\* the iteration pushes the one token tok and consumes n characters from ScanStart
Pushes(tok, n) ==
    /\ tokens' = Append(tokens, tok)
    /\ position' = ScanStart + n
    /\ pc' = "tokenizing"

\* the iteration fails with an error of this kind, having consumed n characters
Fails(kind, n) ==
    /\ tokens' = Append(tokens, Eof)
    /\ position' = ScanStart + n
    /\ pc' = "ready"
    /\ reported'.some /\ ~reported'.value.ok /\ reported'.value.error = kind

\* C11: '>' '=', '<' '=' and '!' '=' are scanned as one token each, both
\* characters consumed; '>' and '<' not followed by '=' as GreaterThan and
\* LessThan, one character consumed; '!' not followed by '=' is an
\* UnexpectedToken error; '=' is Equal and '=' '=' one Equal, both consumed.
C11_OperatorLookahead ==
    [][LoopIteration =>
        LET c == CharAt(ScanStart)
            d == CharAt(ScanStart + 1)
        IN  /\ (c = ">" /\ d = "=") => Pushes(Simple("GreaterThanOrEqual"), 2)
            /\ (c = "<" /\ d = "=") => Pushes(Simple("LessThanOrEqual"), 2)
            /\ (c = "!" /\ d = "=") => Pushes(Simple("NotEqual"), 2)
            /\ (c = ">" /\ d # "=") => Pushes(Simple("GreaterThan"), 1)
            /\ (c = "<" /\ d # "=") => Pushes(Simple("LessThan"), 1)
            /\ (c = "!" /\ d # "=") => Fails("UnexpectedToken", 1)
            /\ (c = "=" /\ d # "=") => Pushes(Simple("Equal"), 1)
            /\ (c = "=" /\ d = "=") => Pushes(Simple("Equal"), 2)]_vars

\* "<=!=!" was scanned: two two-character tokens, then the bare '!' failed
C11_Witness ==
    /\ input = <<"<", "=", "!">> \/ input = <<"!", "=", "!">>
    /\ pc = "ready"
    /\ Len(tokens) = 2
    /\ tokens[1] \in {Simple("LessThanOrEqual"), Simple("NotEqual")}
    /\ position = 3
    /\ reported = Some(Err("UnexpectedToken", "Unexpected '!' without '='"))

\* a letter, a digit or an underscore
IsWordChar(ch) ==
    \/ \E k \in 1..26 : ch = Lower[k] \/ ch = Upper[k]
    \/ \E k \in 1..10 : ch = Digits[k]
    \/ ch = "_"

\* the position behind the maximal run of word characters from ScanStart
WordEnd ==
    CHOOSE e \in ScanStart..Len(input) :
        /\ \A q \in ScanStart..(e - 1) : IsWordChar(input[q + 1])
        /\ e = Len(input) \/ ~IsWordChar(input[e + 1])

\* w is the reserved word W in some casing
IsCasingOf(w, W) ==
    /\ Len(w) = Len(W)
    /\ \A i \in 1..Len(w) :
          w[i] = W[i] \/ \E k \in 1..26 : w[i] = Lower[k] /\ W[i] = Upper[k]

\* C12: a maximal run of letters, digits and underscores that starts with
\* a letter or an underscore is scanned as one token: the Keyword of the
\* reserved word the whole run is a casing of, if there is one, and
\* otherwise the Identifier carrying the whole run.
C12_KeywordOrIdentifier ==
    [][(LoopIteration /\ IsWordChar(CharAt(ScanStart))
            /\ \A k \in 1..10 : CharAt(ScanStart) # Digits[k]) =>
        LET run == SubSeq(input, ScanStart + 1, WordEnd)
            n == WordEnd - ScanStart
        IN  /\ \A W \in ReservedWords :
                  IsCasingOf(run, W) => Pushes(KeywordTok(W), n)
            /\ (\A W \in ReservedWords : ~IsCasingOf(run, W))
                  => Pushes(Identifier(run), n)]_vars

\* "by+orx" was scanned: a keyword in lower case, and an identifier that
\* begins with a reserved word
C12_Witness ==
    /\ input = <<"b","y","+","o","r","x">>
    /\ tokens = <<KeywordTok(<<"B","Y">>), Simple("Plus"), Identifier(<<"o","r","x">>)>>
    /\ position = 6

(***************************************************************************)
(* Numbers written in decimal, compared by value: both are padded with     *)
(* leading zeros to the same length and compared digit by digit.           *)
(***************************************************************************)
IsDigitChar(ch) == \E k \in 1..10 : ch = Digits[k]
DigitOrd(ch) == CHOOSE k \in 0..9 : Digits[k + 1] = ch

Padded(ds, n) ==
    [i \in 1..n |-> IF i <= n - Len(ds) THEN "0" ELSE ds[i - (n - Len(ds))]]

Max(a, b) == IF a >= b THEN a ELSE b

ValueLeq(ds, es) ==
    LET n == Max(Len(ds), Len(es))
        a == Padded(ds, n)
        b == Padded(es, n)
    IN  \/ a = b
        \/ \E i \in 1..n : /\ \A j \in 1..(i - 1) : a[j] = b[j]
                           /\ DigitOrd(a[i]) < DigitOrd(b[i])

ValueEq(ds, es) == ValueLeq(ds, es) /\ ValueLeq(es, ds)

\* the position behind the maximal run of digits from ScanStart
DigitsEnd ==
    CHOOSE e \in ScanStart..Len(input) :
        /\ \A q \in ScanStart..(e - 1) : IsDigitChar(input[q + 1])
        /\ e = Len(input) \/ ~IsDigitChar(input[e + 1])

\* C13: a maximal run of digits whose value is at most 2^64 - 1 is scanned
\* as one Number token of that value; a run whose value is larger is an
\* ExpectedNumber error and pushes no Number token.
C13_NumericBounds ==
    [][(LoopIteration /\ IsDigitChar(CharAt(ScanStart))) =>
        LET run == SubSeq(input, ScanStart + 1, DigitsEnd)
            n == DigitsEnd - ScanStart
        IN  IF ValueLeq(run, U64Max)
            THEN /\ Len(tokens') = Len(tokens) + 1
                 /\ SubSeq(tokens', 1, Len(tokens)) = tokens
                 /\ Last(tokens').type = "Number"
                 /\ ValueEq(Last(tokens').value, run)
                 /\ position' = ScanStart + n
                 /\ pc' = "tokenizing"
            ELSE Fails("ExpectedNumber", n)]_vars

\* "18446744073709551615+18446744073709551616" was scanned: the first
\* number is a token, the second is the error
C13_Witness ==
    /\ input = U64Max \o <<"+">> \o U64MaxPlusOne
    /\ pc = "ready"
    /\ tokens = <<Number(U64Max), Simple("Plus"), Eof>>
    /\ position = 41
    /\ reported = Some(Err("ExpectedNumber", "Invalid number"))

\* C14: peek_token() leaves the lexer as it is, and the next() that follows
\* it returns what it returned, also with the cursor at or past the end.
C14_PeekAgreesWithNext ==
    [][/\ (ret'.op = "peek_token" /\ ret' # ret)
            => (position' = position /\ tokens' = tokens)
       /\ (ret.op = "peek_token" /\ served' # served)
            => ret'.value = ret.value]_vars

\* the tokens of the text before its first lexical error, followed by Eof
TokensOfPrefix == Append(ScanPrefix(input, 0, <<>>).tokens, Eof)

\* what parse() returns on a parser that holds the first of these tokens as
\* its current token and the cursor behind it
ParseFromStart(toks) == Parse(toks, ParserState(1, Some(toks[1]))).result

\* C15: on a text whose first lexical error comes after the prefix P,
\* parse() returns what parsing the tokens of P followed by Eof returns.
C15_ParsesThePrefix ==
    (ParseReturned /\ HasLexicalError(input))
        => ret.value = ParseFromStart(TokensOfPrefix)

ParserAtWork == client = "parser" /\ pc \in {"ready", "parser"}

C18_StopsAtTerminator ==
    ParseReturned =>
        /\ ret.value.ok =>
              current_token.some /\ GetPrecedence(current_token.value) = 0
        /\ (/\ Len(constructed) >= 3
            /\ constructed[1].type \in {"Number", "Identifier"}
            /\ GetPrecedence(constructed[2]) = 0)
              => /\ ret.value.ok
                 /\ current_token = Some(constructed[2])

====
